---- MODULE Spec2Model ----
(***************************************************************************)
(* Model of the Apple sales prediction dashboards app.py and app1.py.      *)
(* Both are Streamlit scripts: every user interaction re-executes the      *)
(* whole script from the top.  One action of the model is one interaction  *)
(* together with the complete script run (and the st.rerun pass, if any)   *)
(* that it triggers.                                                       *)
(*                                                                         *)
(* Numbers: the widgets deliver Python ints and floats.  The model keeps   *)
(* them exact: inputs are whole numbers, a discounted price is held in     *)
(* 1/100 USD and a revenue as [dollars, mills] (mills = 1/1000 USD), so    *)
(* that the products with (1 - discount_pct/100) and with 1.1 are exact    *)
(* decimal arithmetic.  Binary floating-point rounding is not modelled.    *)
(***************************************************************************)
EXTENDS Integers, Sequences, FiniteSets, TLC

VARIABLES
    prog,       \* which script the process runs: "app" (app.py) or "app1" (app1.py)
    artifact,   \* sales_model.pkl on disk: [file, feature_names_in_]
    cache,      \* the st.cache_resource entry of load_model
    loadRuns,   \* how many times the body of load_model has executed
    session,    \* st.session_state: a function from the keys that are set
    inputs,     \* current values of the four sidebar widgets
    ui,         \* what the last script run rendered
    run         \* trace of the last interaction

vars == <<prog, artifact, cache, loadRuns, session, inputs, ui, run>>

(***************************************************************************)
(* Bounds of the model.                                                    *)
(***************************************************************************)
MaxLoadRuns == 3    \* cap on the load_model body counter
MaxCols == 5        \* longest feature_names_in_ drawn for the assembler

(***************************************************************************)
(* Program constants.                                                      *)
(***************************************************************************)
YearMin == 2020
YearMax == 2030
YearDefault == 2023
DiscountMin == 0
DiscountMax == 50
DiscountDefault == 10
AppPriceDefault == 1000
AppUnitsDefault == 50
App1PriceMin == 100
App1PriceMax == 5000
App1PriceDefault == 999
App1UnitsMin == 1
App1UnitsMax == 100000
App1UnitsDefault == 5000
Percent == 100      \* the divisor in discount_pct / 100
MarkupTenths == 11  \* the factor 1.1, in tenths

Programs == {"app", "app1"}
Fields == {"year", "unit_price_usd", "discount_pct", "units_sold"}
FeatureNames == Fields \cup {"extra_feature"}

(***************************************************************************)
(* Values the user may try to enter; a widget accepts only those inside    *)
(* its min_value / max_value.                                              *)
(***************************************************************************)
YearCandidates == {2019, 2020, 2030, 2031}
PriceCandidates == {-1, 99, 100, 999, 1000, 5001}
DiscountCandidates == {-1, 0, 10, 50, 51}
UnitsCandidates == {-1, 0, 1, 50, 5000, 100001}

Candidates(f) ==
    CASE f = "year" -> YearCandidates
      [] f = "unit_price_usd" -> PriceCandidates
      [] f = "discount_pct" -> DiscountCandidates
      [] f = "units_sold" -> UnitsCandidates

(***************************************************************************)
(* Sidebar widgets.                                                        *)
(***************************************************************************)
Bounded(lo, hi, dflt) ==
    [hasMin |-> TRUE, min |-> lo, hasMax |-> TRUE, max |-> hi, value |-> dflt]

Unbounded(dflt) ==
    [hasMin |-> FALSE, min |-> 0, hasMax |-> FALSE, max |-> 0, value |-> dflt]

AppWidget(f) ==
    CASE f = "year" -> Bounded(YearMin, YearMax, YearDefault)
      [] f = "unit_price_usd" -> Unbounded(AppPriceDefault)
      [] f = "discount_pct" -> Bounded(DiscountMin, DiscountMax, DiscountDefault)
      [] f = "units_sold" -> Unbounded(AppUnitsDefault)

App1Widget(f) ==
    CASE f = "year" -> Bounded(YearMin, YearMax, YearDefault)
      [] f = "unit_price_usd" -> Bounded(App1PriceMin, App1PriceMax, App1PriceDefault)
      [] f = "discount_pct" -> Bounded(DiscountMin, DiscountMax, DiscountDefault)
      [] f = "units_sold" -> Bounded(App1UnitsMin, App1UnitsMax, App1UnitsDefault)

Widget(p, f) == IF p = "app" THEN AppWidget(f) ELSE App1Widget(f)

\* number_input / slider: a value below min_value or above max_value is refused
Accepts(w, v) ==
    /\ (w.hasMin => v >= w.min)
    /\ (w.hasMax => v <= w.max)

DefaultInputs(p) == [f \in Fields |-> Widget(p, f).value]

(***************************************************************************)
(* Arithmetic of the handlers.                                             *)
(***************************************************************************)
Dec(d, m) == [dollars |-> d, mills |-> m]

\* a discount taken off as an amount instead of a percentage
DiscountedPriceAbsolute(unit_price, discount_pct) ==
    (unit_price - discount_pct) * Percent

\* unit_price * (1 - discount_pct / 100), in 1/100 USD
DiscountedPrice(unit_price, discount_pct) ==
    unit_price * (Percent - discount_pct)

\* a heuristic that forgets the 1.1 markup
DemoPredictionNoMarkup(units_sold, unit_price, discount_pct) ==
    LET hundredths == units_sold * unit_price * (Percent - discount_pct)
    IN  Dec(hundredths \div Percent, (hundredths % Percent) * 10)

\* units_sold * unit_price * (1 - discount_pct/100) * 1.1, evaluated left to
\* right as Python does; the last product is split to stay inside 32 bits
DemoPrediction(units_sold, unit_price, discount_pct) ==
    LET base == units_sold * unit_price
        hundredths == base * (Percent - discount_pct)
        q == hundredths \div 1000
        r == hundredths % 1000
    IN  Dec(q * MarkupTenths + (r * MarkupTenths) \div 1000,
            (r * MarkupTenths) % 1000)

(***************************************************************************)
(* pandas: the one-row frame the handlers build.                           *)
(***************************************************************************)
Ok(v) == [exc |-> "none", value |-> v]
Raise(e, v) == [exc |-> e, value |-> v]

\* pd.DataFrame(columns=columns): the columns in order, no row yet
NewFrame(columns) == [columns |-> columns, row |-> <<>>]

\* input_data.loc[0] = 0: adds row 0 with every column 0; pandas refuses to
\* enlarge a frame that has no columns ("cannot set a frame with no defined
\* columns")
SetRowZero(df) ==
    IF Len(df.columns) = 0
    THEN Raise("ValueError", df)
    ELSE Ok([df EXCEPT !.row = [i \in 1..Len(df.columns) |-> 0]])

\* "name" in input_data.columns
HasColumn(df, name) == \E i \in 1..Len(df.columns) : df.columns[i] = name

\* input_data.at[0, name] = v: sets the cell; a label that is no column
\* yet is added as a new last column
SetAt(df, name, v) ==
    IF HasColumn(df, name)
    THEN [df EXCEPT !.row = [i \in 1..Len(df.row) |->
                                IF df.columns[i] = name THEN v ELSE df.row[i]]]
    ELSE [columns |-> Append(df.columns, name), row |-> Append(df.row, v)]

\* a mapping that forgets the membership test
MapFieldUnguarded(df, name, v) == SetAt(df, name, v)

\* if name in input_data.columns: input_data.at[0, name] = v
MapField(df, name, v) == IF HasColumn(df, name) THEN SetAt(df, name, v) ELSE df

\* the feature mapping of both scripts
Assemble(columns, inp) ==
    LET z == SetRowZero(NewFrame(columns))
    IN  IF z.exc # "none" THEN z
        ELSE Ok(MapField(MapField(MapField(MapField(z.value,
                    "year", inp["year"]),
                    "unit_price_usd", inp["unit_price_usd"]),
                    "discount_pct", inp["discount_pct"]),
                    "units_sold", inp["units_sold"]))

(***************************************************************************)
(* The model artifact and st.cache_resource.                               *)
(***************************************************************************)
None == "None"          \* Python None as a model handle
Model == "model"        \* the object joblib.load returns
Unbound == "unbound"    \* the name `model` was never assigned

\* the body of app.py's load_model: joblib.load, nothing caught
AppLoadBody(file) ==
    CASE file = "ok" -> [exc |-> "none", value |-> Model, messages |-> {}]
      [] file = "missing" ->
            [exc |-> "FileNotFoundError", value |-> Unbound, messages |-> {}]
      [] file = "corrupt" ->
            [exc |-> "UnpicklingError", value |-> Unbound, messages |-> {}]

\* the body of app1.py's load_model: both failures are turned into None
App1LoadBody(file) ==
    CASE file = "ok" -> [exc |-> "none", value |-> Model, messages |-> {}]
      [] file = "missing" -> [exc |-> "none", value |-> None, messages |-> {}]
      [] file = "corrupt" ->
            [exc |-> "none", value |-> None, messages |-> {"load_error"}]

LoadBody(p, file) == IF p = "app" THEN AppLoadBody(file) ELSE App1LoadBody(file)

EmptyCache == [filled |-> FALSE, value |-> Unbound, messages |-> {}]

\* @st.cache_resource: a stored result is returned (and its st.* elements are
\* replayed) without running the body; otherwise the body runs and its result
\* is stored, unless it raises: an exception is never stored
CachedLoad(p, cch, lr, file) ==
    IF cch.filled
    THEN [exc |-> "none", value |-> cch.value, messages |-> cch.messages,
          cache |-> cch, loadRuns |-> lr, bodyRan |-> FALSE]
    ELSE LET b == LoadBody(p, file)
         IN  [exc |-> b.exc, value |-> b.value, messages |-> b.messages,
              cache |-> IF b.exc = "none"
                        THEN [filled |-> TRUE, value |-> b.value,
                              messages |-> b.messages]
                        ELSE cch,
              loadRuns |-> lr + 1, bodyRan |-> TRUE]

\* model.feature_names_in_
FeatureNamesIn(handle, art) ==
    IF handle = Model THEN Ok(art.feature_names_in_)
    ELSE Raise("AttributeError", <<>>)

\* what model.predict does with one request: it raises, or returns an array
\* whose first element is the revenue
PredictOutcomes ==
    { [raises |-> TRUE, value |-> Dec(0, 0)],
      [raises |-> FALSE, value |-> Dec(0, 0)],
      [raises |-> FALSE, value |-> Dec(4495500, 0)] }

(***************************************************************************)
(* st.session_state of app1.py.                                            *)
(***************************************************************************)
NoSession == [k \in {} |-> FALSE]

Put(s, k, v) == [x \in DOMAIN s \cup {k} |-> IF x = k THEN v ELSE s[x]]

SetDefault(s, k, v) == IF k \in DOMAIN s THEN s ELSE Put(s, k, v)

\* prediction_value is None (<<>>) or a revenue (<<value>>)
InitSession(s) ==
    SetDefault(SetDefault(SetDefault(s,
        "prediction_made", FALSE),
        "prediction_value", <<>>),
        "demo_mode", FALSE)

\* the Reset All Values handler, up to its st.rerun()
ResetSession(s) ==
    Put(Put(s, "prediction_made", FALSE), "prediction_value", <<>>)

\* the Enable Demo Mode handler, up to its st.rerun()
EnableDemo(s) == Put(s, "demo_mode", TRUE)

\* storing a finished prediction
StorePrediction(s, prediction) ==
    Put(Put(s, "prediction_made", TRUE), "prediction_value", <<prediction>>)

(***************************************************************************)
(* What one script pass leaves behind.                                     *)
(*   ui:    exception  the uncaught exception Streamlit reports, or "none" *)
(*          widgets    whether the sidebar inputs were rendered            *)
(*          buttons    the buttons rendered                                *)
(*          messages   st.error / st.warning / st.info / success boxes     *)
(*          metrics    <<>> or <<[revenue, discounted_price]>>; the other  *)
(*                     cards repeat the inputs and are left out            *)
(*   trace: bookkeeping about the pass, used to state the properties       *)
(***************************************************************************)
NoTrace ==
    [handle |-> Unbound, bodyRan |-> FALSE, branch |-> "none",
     predictCalls |-> 0, predictRaised |-> FALSE, caught |-> "none",
     modelOps |-> {}, absentOps |-> {}, input_data |-> <<>>]

\* the operations invoked on the handle, and those invoked on an absent one
Invoke(tr, handle, op) ==
    [tr EXCEPT !.modelOps = @ \cup {op},
               !.absentOps = IF handle = Model THEN @ ELSE @ \cup {op}]

(***************************************************************************)
(* app.py, section by section.  Each definition takes what the sections    *)
(* before it computed.                                                     *)
(***************************************************************************)
\* the trace of a pass once load_model() has returned or raised
LoadTrace(ld) == [NoTrace EXCEPT !.handle = ld.value, !.bodyRan = ld.bodyRan]

\* an exception nobody catches ends the pass; Streamlit shows it
AppCrash(ld, tr, exc, widgets, buttons) ==
    [rerun |-> FALSE, cache |-> ld.cache, loadRuns |-> ld.loadRuns,
     session |-> NoSession,
     ui |-> [exception |-> exc, widgets |-> widgets, buttons |-> buttons,
             messages |-> {}, metrics |-> <<>>],
     trace |-> [tr EXCEPT !.caught = "framework"]]

AppRendered(ld, tr, messages, metrics) ==
    [rerun |-> FALSE, cache |-> ld.cache, loadRuns |-> ld.loadRuns,
     session |-> NoSession,
     ui |-> [exception |-> "none", widgets |-> TRUE, buttons |-> {"predict"},
             messages |-> messages, metrics |-> metrics],
     trace |-> tr]

\* if st.button("Predict Revenue"): prediction = model.predict(input_data) ...
AppPredict(ld, tr, inp, outcome) ==
    IF outcome.raises
    THEN AppCrash(ld, tr, "PredictError", TRUE, {"predict"})
    ELSE AppRendered(ld, tr, {"success"},
             <<[revenue |-> outcome.value,
                discounted_price |->
                    DiscountedPrice(inp["unit_price_usd"], inp["discount_pct"])]>>)

\* the Prediction Section
AppButton(ld, tr, inp, button, outcome) ==
    IF button # "predict" THEN AppRendered(ld, tr, {}, <<>>)
    ELSE AppPredict(ld, [Invoke(tr, ld.value, "predict") EXCEPT
                            !.branch = "model", !.predictCalls = 1,
                            !.predictRaised = outcome.raises],
                    inp, outcome)

\* Create Input DataFrame, after the frame was built
AppAssembled(ld, tr, asm, inp, button, outcome) ==
    IF asm.exc # "none" THEN AppCrash(ld, tr, asm.exc, TRUE, {})
    ELSE AppButton(ld, [tr EXCEPT !.input_data = <<asm.value>>],
                   inp, button, outcome)

\* columns = model.feature_names_in_, after the sidebar inputs
AppColumns(ld, tr, columns, inp, button, outcome) ==
    IF columns.exc # "none" THEN AppCrash(ld, tr, columns.exc, TRUE, {})
    ELSE AppAssembled(ld, tr, Assemble(columns.value, inp), inp, button, outcome)

\* model = load_model(): an exception of the body leaves the module body
AppLoaded(ld, art, inp, button, outcome) ==
    IF ld.exc # "none" THEN AppCrash(ld, LoadTrace(ld), ld.exc, FALSE, {})
    ELSE AppColumns(ld, Invoke(LoadTrace(ld), ld.value, "feature_names_in_"),
                    FeatureNamesIn(ld.value, art), inp, button, outcome)

AppPass(cch, lr, art, inp, button, outcome) ==
    AppLoaded(CachedLoad("app", cch, lr, art.file), art, inp, button, outcome)

(***************************************************************************)
(* app1.py                                                                 *)
(***************************************************************************)
\* a branch test that forgets the None check
UseModelUnchecked(handle, demo_mode) == ~demo_mode

\* model is not None and not st.session_state.demo_mode
UseModel(handle, demo_mode) == handle # None /\ ~demo_mode

\* a demo-mode button offered whether or not a model was loaded
OfferDemoModeAlways(handle, demo_mode) == ~demo_mode

\* model is None and not st.session_state.demo_mode
OfferDemoMode(handle, demo_mode) == handle = None /\ ~demo_mode

\* if model is not None: (the Model Information expander)
ShowModelInfo(handle) == handle # None

\* st.session_state.demo_mode and model is None
ShowDemoInfo(handle, demo_mode) == demo_mode /\ handle = None

\* except Exception as e: st.error(...) -- nothing stored, nothing displayed
PredictionFailed(s, tr) ==
    [session |-> s, messages |-> {"prediction_error"}, metrics |-> <<>>,
     trace |-> [tr EXCEPT !.caught = "callsite"]]

\* the statements of the try block after the prediction is known
PredictionDone(s, tr, inp, prediction) ==
    [session |-> StorePrediction(s, prediction),
     messages |-> {"success"},
     metrics |-> <<[revenue |-> prediction,
                    discounted_price |->
                        DiscountedPrice(inp["unit_price_usd"],
                                        inp["discount_pct"])]>>,
     trace |-> tr]

\* prediction = model.predict(input_data)[0]
ModelResult(s, inp, outcome, tr) ==
    IF outcome.raises THEN PredictionFailed(s, tr)
    ELSE PredictionDone(s, tr, inp, outcome.value)

\* Map inputs, then Make prediction
ModelPredict(handle, s, inp, outcome, tr, asm) ==
    IF asm.exc # "none" THEN PredictionFailed(s, tr)
    ELSE ModelResult(s, inp, outcome,
             [Invoke(tr, handle, "predict") EXCEPT
                 !.input_data = <<asm.value>>,
                 !.predictCalls = 1,
                 !.predictRaised = outcome.raises])

\* Prepare input data
ModelBranch(handle, s, inp, outcome, tr, columns) ==
    IF columns.exc # "none" THEN PredictionFailed(s, tr)
    ELSE ModelPredict(handle, s, inp, outcome, tr,
                      Assemble(columns.value, inp))

\* the Generate Prediction handler
Generate(handle, art, s, inp, outcome, tr) ==
    IF UseModel(handle, s["demo_mode"])
    THEN ModelBranch(handle, s, inp, outcome,
             [Invoke(tr, handle, "feature_names_in_") EXCEPT !.branch = "model"],
             FeatureNamesIn(handle, art))
    ELSE PredictionDone(s, [tr EXCEPT !.branch = "heuristic"], inp,
                        DemoPrediction(inp["units_sold"],
                                       inp["unit_price_usd"],
                                       inp["discount_pct"]))

NoRequest(s, tr) ==
    [session |-> s, messages |-> {}, metrics |-> <<>>, trace |-> tr]

NoUi ==
    [exception |-> "none", widgets |-> FALSE, buttons |-> {},
     messages |-> {}, metrics |-> <<>>]

\* st.rerun(): the pass ends here and the script starts again
App1Rerun(ld, s, tr) ==
    [rerun |-> TRUE, cache |-> ld.cache, loadRuns |-> ld.loadRuns,
     session |-> s, ui |-> NoUi, trace |-> tr]

\* a pass that reaches the end of the script
App1Rendered(ld, g, offer, info, demo) ==
    [rerun |-> FALSE, cache |-> ld.cache, loadRuns |-> ld.loadRuns,
     session |-> g.session,
     ui |-> [exception |-> "none", widgets |-> TRUE,
             buttons |-> {"reset", "generate"} \cup
                 (IF offer THEN {"enable_demo"} ELSE {}),
             messages |-> ld.messages \cup g.messages \cup
                 (IF offer THEN {"demo_warning"} ELSE {}) \cup
                 (IF info THEN {"model_info"} ELSE {}) \cup
                 (IF demo THEN {"demo_info"} ELSE {}),
             metrics |-> g.metrics],
     trace |-> IF info THEN Invoke(g.trace, ld.value, "feature_names_in_")
               ELSE g.trace]

\* Model status, Model Information and the demo-mode note
App1Status(ld, g, button) ==
    IF OfferDemoMode(ld.value, g.session["demo_mode"]) /\ button = "enable_demo"
    THEN App1Rerun(ld, EnableDemo(g.session), g.trace)
    ELSE App1Rendered(ld, g,
             OfferDemoMode(ld.value, g.session["demo_mode"]),
             ShowModelInfo(ld.value),
             ShowDemoInfo(ld.value, g.session["demo_mode"]))

\* the sidebar with its Reset button, then the main content area
App1Loaded(ld, s, art, inp, button, outcome) ==
    IF button = "reset" THEN App1Rerun(ld, ResetSession(s), LoadTrace(ld))
    ELSE App1Status(ld,
             IF button = "generate"
             THEN Generate(ld.value, art, s, inp, outcome, LoadTrace(ld))
             ELSE NoRequest(s, LoadTrace(ld)),
             button)

App1Pass(cch, lr, art, s, inp, button, outcome) ==
    App1Loaded(CachedLoad("app1", cch, lr, art.file), InitSession(s),
               art, inp, button, outcome)

(***************************************************************************)
(* One interaction: the pass it triggers and, after st.rerun(), the pass   *)
(* from the top with no button pressed.                                    *)
(***************************************************************************)
Pass(p, cch, lr, art, s, inp, button, outcome) ==
    IF p = "app" THEN AppPass(cch, lr, art, inp, button, outcome)
    ELSE App1Pass(cch, lr, art, s, inp, button, outcome)

MergeTrace(first, second) ==
    [second EXCEPT
        !.trace.bodyRan = @ \/ first.trace.bodyRan,
        !.trace.modelOps = @ \cup first.trace.modelOps,
        !.trace.absentOps = @ \cup first.trace.absentOps]

AfterPass(first, p, art, inp, outcome) ==
    IF ~first.rerun THEN first
    ELSE MergeTrace(first, Pass(p, first.cache, first.loadRuns, art,
                                first.session, inp, "none", outcome))

Script(p, cch, lr, art, s, inp, button, outcome) ==
    AfterPass(Pass(p, cch, lr, art, s, inp, button, outcome),
              p, art, inp, outcome)

(***************************************************************************)
(* State machine.                                                          *)
(***************************************************************************)
\* feature_names_in_ of the artifacts the dashboard is run against
ArtifactColumns ==
    { <<>>,
      <<"year", "unit_price_usd", "discount_pct", "units_sold">>,
      <<"units_sold", "extra_feature", "year">> }

Artifacts ==
    [file : {"ok"}, feature_names_in_ : ArtifactColumns] \cup
    [file : {"missing", "corrupt"}, feature_names_in_ : {<<>>}]

NoOutcome == [raises |-> FALSE, value |-> Dec(0, 0)]

Init ==
    /\ prog \in Programs
    /\ artifact \in Artifacts
    /\ cache = EmptyCache
    /\ loadRuns = 0
    /\ session = NoSession
    /\ inputs = DefaultInputs(prog)
    /\ ui = NoUi
    /\ run = [button |-> "init", sessionKept |-> TRUE, trace |-> NoTrace]

\* the script run's effects become the new state
Commit(r, button, inp) ==
    /\ cache' = r.cache
    /\ loadRuns' = r.loadRuns
    /\ session' = r.session
    /\ ui' = r.ui
    /\ run' = [button |-> button,
               sessionKept |-> (r.session = session
                                \/ r.session = InitSession(session)),
               trace |-> r.trace]
    /\ inputs' = inp
    /\ UNCHANGED <<prog, artifact>>

Interact(button, inp, outcome) ==
    /\ cache.filled \/ loadRuns < MaxLoadRuns
    /\ Commit(Script(prog, cache, loadRuns, artifact, session, inp,
                     button, outcome), button, inp)

\* the browser opens the page: the first script run
OpenPage ==
    /\ run.button = "init"
    /\ Interact("none", inputs, NoOutcome)

\* "Rerun" from the Streamlit menu
RerunScript ==
    /\ run.button # "init"
    /\ Interact("none", inputs, NoOutcome)

\* the user enters a value in one sidebar widget
ChangeInput ==
    /\ ui.widgets
    /\ \E f \in Fields : \E v \in Candidates(f) :
          /\ Accepts(Widget(prog, f), v)
          /\ v # inputs[f]
          /\ Interact("none", [inputs EXCEPT ![f] = v], NoOutcome)

PressPredict ==
    /\ "predict" \in ui.buttons
    /\ \E outcome \in PredictOutcomes : Interact("predict", inputs, outcome)

PressGenerate ==
    /\ "generate" \in ui.buttons
    /\ \E outcome \in PredictOutcomes : Interact("generate", inputs, outcome)

PressReset ==
    /\ "reset" \in ui.buttons
    /\ Interact("reset", inputs, NoOutcome)

PressEnableDemo ==
    /\ "enable_demo" \in ui.buttons
    /\ Interact("enable_demo", inputs, NoOutcome)

Next ==
    \/ OpenPage
    \/ RerunScript
    \/ ChangeInput
    \/ PressPredict
    \/ PressGenerate
    \/ PressReset
    \/ PressEnableDemo

Spec == Init /\ [][Next]_vars

(***************************************************************************)
(* The feature mapping on its own: every ordered set of feature names of   *)
(* at most MaxCols names, every input the widgets accept.                  *)
(***************************************************************************)
Injective(q) == \A i, j \in 1..Len(q) : q[i] = q[j] => i = j

FeatureLists ==
    { q \in UNION { [1..k -> FeatureNames] : k \in 0..MaxCols } : Injective(q) }

AcceptedValues(p, f) ==
    { v \in Candidates(f) \cup {Widget(p, f).value} : Accepts(Widget(p, f), v) }

AcceptedInputs(p) ==
    { [year |-> y, unit_price_usd |-> u, discount_pct |-> d, units_sold |-> n] :
        y \in AcceptedValues(p, "year"),
        u \in AcceptedValues(p, "unit_price_usd"),
        d \in AcceptedValues(p, "discount_pct"),
        n \in AcceptedValues(p, "units_sold") }

InitAssemble ==
    /\ prog \in Programs
    /\ artifact \in [file : {"ok"}, feature_names_in_ : FeatureLists]
    /\ cache = EmptyCache
    /\ loadRuns = 0
    /\ session = NoSession
    /\ inputs \in AcceptedInputs(prog)
    /\ ui = NoUi
    /\ run = [button |-> "init", sessionKept |-> TRUE, trace |-> NoTrace]

\* the outcome of the mapping, kept as a pass keeps it
Assembled(asm) ==
    /\ ui' = [NoUi EXCEPT !.exception = asm.exc]
    /\ run' = [button |-> "assemble", sessionKept |-> TRUE,
               trace |-> [NoTrace EXCEPT
                   !.input_data = IF asm.exc = "none" THEN <<asm.value>>
                                  ELSE <<>>]]

AssembleStep ==
    /\ run.button = "init"
    /\ Assembled(Assemble(artifact.feature_names_in_, inputs))
    /\ UNCHANGED <<prog, artifact, cache, loadRuns, session, inputs>>

NextAssemble == AssembleStep

SpecAssemble == InitAssemble /\ [][NextAssemble]_vars

(***************************************************************************)
(* Properties.                                                             *)
(***************************************************************************)
Ran == run.button # "init"
Requested == run.button \in {"generate", "predict"}
Tr == run.trace

\* C1: when the model artifact is missing or fails to load, the script run
\* does not fail: the handle is None, the run reaches its end, the user sees
\* the demo-mode warning (or, once demo mode is enabled, the demo-mode note),
\* and every prediction request is answered by the heuristic -- in app.py and
\* in app1.py alike.
C1_MissingModelFallsBack ==
    (Ran /\ artifact.file # "ok") =>
        /\ ui.exception = "none"
        /\ Tr.handle = None
        /\ ui.messages \cap {"demo_warning", "demo_info"} # {}
        /\ (Requested => /\ Tr.branch = "heuristic"
                         /\ ui.metrics # <<>>)

\* C2: if model.predict raises during a prediction request, the failure is
\* caught at the call site and shown as an error message, no result metric is
\* displayed, model.predict was called once only, and the session's
\* prediction_made / prediction_value are what they were before the request.
C2_PredictFailureCaught ==
    Tr.predictRaised =>
        /\ Tr.caught = "callsite"
        /\ ui.exception = "none"
        /\ "prediction_error" \in ui.messages
        /\ ui.metrics = <<>>
        /\ Tr.predictCalls = 1
        /\ run.sessionKept

\* the value the mapping owes a column
Expected(name) == IF name \in Fields THEN inputs[name] ELSE 0

\* the frame has exactly the expected columns, in order, with the owed values
WellAssembled(df) ==
    /\ df.columns = artifact.feature_names_in_
    /\ Len(df.row) = Len(df.columns)
    /\ \A i \in 1..Len(df.columns) : df.row[i] = Expected(df.columns[i])

C4_AbsentModelNeverInvoked ==
    /\ Tr.absentOps = {}
    /\ (Tr.handle # Model => Tr.modelOps = {})

\* a request answered with the model absent
C4_Witness ==
    /\ run.button = "generate"
    /\ Tr.handle = None
    /\ Tr.branch = "heuristic"
    /\ ui.metrics # <<>>

\* units_sold * unit_price * (1 - discount_pct/100) * 1.1 computed per unit:
\* the price of one unit in mills, then times the units
OwedRevenue ==
    LET unit == inputs["unit_price_usd"] * (Percent - inputs["discount_pct"])
                    * MarkupTenths
        whole == unit \div 1000
        part == unit % 1000
        n == inputs["units_sold"]
    IN  Dec(n * whole + (n * part) \div 1000, (n * part) % 1000)

\* C5: a request answered without a model produces, and stores as
\* prediction_value, units_sold * unit_price_usd * (1 - discount_pct/100) * 1.1;
\* unit_price_usd = 1000, discount_pct = 10, units_sold = 50 gives 49500.
C5_DemoRevenue ==
    (Requested /\ Tr.branch = "heuristic") =>
        /\ session["prediction_made"]
        /\ session["prediction_value"] = <<OwedRevenue>>
        /\ ui.metrics # <<>>
        /\ ui.metrics[1].revenue = OwedRevenue
        /\ ((/\ inputs["unit_price_usd"] = 1000
             /\ inputs["discount_pct"] = 10
             /\ inputs["units_sold"] = 50)
                => session["prediction_value"] = <<Dec(49500, 0)>>)

C5_Witness ==
    /\ run.button = "generate"
    /\ Tr.branch = "heuristic"
    /\ inputs["unit_price_usd"] = 1000
    /\ inputs["discount_pct"] = 10
    /\ inputs["units_sold"] = 50
    /\ session["prediction_value"] = <<Dec(49500, 0)>>

\* C6: every successful prediction request, model-backed or heuristic, shows
\* discounted_unit_price = unit_price_usd * (1 - discount_pct/100): the unit
\* price less discount_pct hundredths of it, the unit price itself at 0 and
\* half of it at 50, whatever the revenue shown next to it.
C6_DiscountedPrice ==
    (Requested /\ ui.metrics # <<>>) =>
        LET shown == ui.metrics[1].discounted_price
            price == inputs["unit_price_usd"]
            pct == inputs["discount_pct"]
        IN  /\ shown + price * pct = price * 100
            /\ (pct = 0 => shown = price * 100)
            /\ (pct = 50 => 2 * shown = price * 100)

\* a model-backed request at the 50 % boundary
C6_Witness ==
    /\ Requested
    /\ Tr.branch = "model"
    /\ ui.metrics # <<>>
    /\ inputs["discount_pct"] = 50
    /\ 2 * ui.metrics[1].discounted_price = inputs["unit_price_usd"] * 100

\* C7: the body of load_model runs at most once in the life of the process,
\* whatever the sequence of reruns, and every run observes the one cached
\* handle, also when the load failed.
C7_LoadedOnce ==
    /\ loadRuns <= 1
    /\ (Ran => /\ cache.filled
               /\ Tr.handle = cache.value)

\* C8: after Reset All Values both session flags hold their initial values.
C8_ResetClearsFlags ==
    run.button = "reset" =>
        /\ session["prediction_made"] = FALSE
        /\ session["demo_mode"] = FALSE

\* C9: every prediction request is made with year in [2020, 2030],
\* unit_price_usd >= 0, discount_pct in [0, 50] and units_sold >= 0.
C9_InputsInRange ==
    Requested =>
        /\ inputs["year"] >= 2020 /\ inputs["year"] <= 2030
        /\ inputs["unit_price_usd"] >= 0
        /\ inputs["discount_pct"] >= 0 /\ inputs["discount_pct"] <= 50
        /\ inputs["units_sold"] >= 0

\* C10: in app1.py demo_mode is set only while the model handle is None, and
\* a request made with a model present takes the model-backed branch.
C10_DemoModeOnlyWithoutModel ==
    /\ ("demo_mode" \in DOMAIN session /\ session["demo_mode"])
            => (cache.filled /\ cache.value = None)
    /\ (run.button = "generate" /\ Tr.handle = Model) => Tr.branch = "model"

\* demo mode enabled, then a request
C10_Witness ==
    /\ "demo_mode" \in DOMAIN session
    /\ session["demo_mode"]
    /\ run.button = "generate"
    /\ Tr.handle = None
    /\ Tr.branch = "heuristic"

====
